---------------------------- MODULE Spec2Model ----------------------------
(***************************************************************************)
(* Model of sim/ignition.py: the NMOS and Schottky-diode device models,    *)
(* the damped fixed-point solver for the drive current over the battery    *)
(* voltage sweep, and the closed-form continuity voltage.                  *)
(*                                                                         *)
(* Numbers.  The script computes in binary floating point.  Two exact      *)
(* integer representations are used here:                                  *)
(*   - the iterative solver and the device models it calls use fixed point *)
(*     numbers: an integer x stands for the real x / Scale (Scale = 10^8,  *)
(*     i.e. 10 nA, 10 nV).  Sums are exact, a product is rounded to the    *)
(*     nearest unit, the logarithm is computed to within a few units;      *)
(*   - the closed-form continuity computation, whose values do not fit the *)
(*     fixed-point range, uses exact rationals [n, d] in lowest terms.     *)
(* TLC reports an error on any integer overflow, so no value ever wraps.   *)
(***************************************************************************)
EXTENDS Integers, Sequences, FiniteSets, TLC

(***************************************************************************)
(* Fixed-point arithmetic                                                  *)
(***************************************************************************)
Base == 10^4

Scale == Base * Base

\* The decimal literal n/d (d a power of ten dividing Scale), e.g. Dec(33, 10) is 3.3
Dec(n, d) == n * (Scale \div d)

Abs(x) == IF x < 0 THEN -x ELSE x

Max(x, y) == IF x >= y THEN x ELSE y

\* |a * b| / Scale rounded to nearest, for a, b >= 0, by base-10^4 limbs so that
\* no intermediate product leaves the 32-bit range
MulAbs(a, b) ==
    LET a0 == a % Base
        a1 == (a \div Base) % Base
        a2 == a \div Scale
        b0 == b % Base
        b1 == (b \div Base) % Base
        b2 == b \div Scale
    IN  (a2 * b2) * Scale
          + (a2 * b1 + a1 * b2) * Base
          + (a2 * b0 + a1 * b1 + a0 * b2)
          + ((a1 * b0 + a0 * b1) + ((a0 * b0 + Scale \div 2) \div Base)) \div Base

\* The float product a * b
Mul(a, b) ==
    IF (a >= 0) = (b >= 0) THEN MulAbs(Abs(a), Abs(b)) ELSE -MulAbs(Abs(a), Abs(b))

\* The first `count` decimal digits of the fraction r / den (0 <= r < den < 2^27 * 3/2),
\* appended to acc
RECURSIVE FracDigits(_, _, _, _)
FracDigits(r, den, count, acc) ==
    IF count = 0
    THEN acc
    ELSE FracDigits((r * 10) % den, den, count - 1, acc * 10 + (r * 10) \div den)

\* a / b in units of 1/Scale for a >= 0, b > 0; both are halved together until the
\* long division fits, which changes the quotient by at most a few units
RECURSIVE DivAbs(_, _)
DivAbs(a, b) ==
    IF b >= 2^27
    THEN DivAbs(a \div 2, b \div 2)
    ELSE (a \div b) * Scale + FracDigits(a % b, b, 8, 0)

\* The float quotient a / b, b # 0
Div(a, b) ==
    IF (a >= 0) = (b >= 0) THEN DivAbs(Abs(a), Abs(b)) ELSE -DivAbs(Abs(a), Abs(b))

\* ln 2 in units of 1/Scale
Ln2 == 69314718

\* y + y^3/3 + y^5/5 + ... : acc holds the sum so far, term the last power y^k
RECURSIVE AtanhSeries(_, _, _, _)
AtanhSeries(term, ysq, k, acc) ==
    LET next == Mul(term, ysq)
    IN  IF next = 0 THEN acc ELSE AtanhSeries(next, ysq, k + 2, acc + next \div (k + 2))

\* Range reduction of n/d by powers of two: <<n', d', k>> with n/d = 2^k * n'/d' (up to
\* rounding of the halved operand) and d' <= n' < 2*d'
RECURSIVE LnReduce(_, _, _)
LnReduce(n, d, k) ==
    IF n \div 2 >= d
    THEN IF d < 2^25 THEN LnReduce(n, d * 2, k + 1) ELSE LnReduce(n \div 2, d, k + 1)
    ELSE IF n < d
         THEN IF n < 2^25 THEN LnReduce(n * 2, d, k - 1) ELSE LnReduce(n, d \div 2, k - 1)
         ELSE <<n, d, k>>

RECURSIVE LnShrink(_, _)
LnShrink(n, d) ==
    IF n >= 2^26 /\ d >= 2^26 THEN LnShrink(n \div 2, d \div 2) ELSE <<n, d>>

\* math.log(n/d) for integers n, d > 0, in units of 1/Scale:
\* ln(n/d) = k*ln 2 + 2*atanh((m - 1)/(m + 1)) with m = n/(d*2^k) in [1, 2)
LnRatio(n, d) ==
    LET s == LnShrink(n, d)
        r == LnReduce(s[1], s[2], 0)
        y == FracDigits(r[1] - r[2], r[1] + r[2], 8, 0)
    IN  r[3] * Ln2 + 2 * AtanhSeries(y, Mul(y, y), 1, y)

(***************************************************************************)
(* Exact rational arithmetic                                               *)
(***************************************************************************)
RECURSIVE GCD(_, _)
GCD(x, y) == IF y = 0 THEN x ELSE GCD(y, x % y)

\* The rational n/d (d # 0) in lowest terms with a positive denominator
R(n, d) ==
    LET g == GCD(Abs(n), Abs(d))
    IN  IF d > 0 THEN [n |-> n \div g, d |-> d \div g] ELSE [n |-> (-n) \div g, d |-> (-d) \div g]

RAdd(x, y) ==
    LET g == GCD(x.d, y.d)
    IN  R(x.n * (y.d \div g) + y.n * (x.d \div g), (x.d \div g) * y.d)

RNeg(x) == [n |-> -x.n, d |-> x.d]

RSub(x, y) == RAdd(x, RNeg(y))

RMul(x, y) ==
    LET p == R(x.n, y.d)
        q == R(y.n, x.d)
    IN  R(p.n * q.n, p.d * q.d)

\* x / y, y # 0
RDiv(x, y) == RMul(x, R(y.d, y.n))

RLt(x, y) == RSub(x, y).n < 0

RGt(x, y) == RLt(y, x)

RGeq(x, y) == ~RLt(x, y)

(***************************************************************************)
(* N-channel MOSFET                                                        *)
(***************************************************************************)
NMOS(kn, Vt) == [kn |-> kn, Vt |-> Vt]

\* 0.5*self.kn*(Vov**2)
DrainCurrentSquareLaw(self, Vov) == Mul(Mul(Dec(5, 10), self.kn), Mul(Vov, Vov))

DrainCurrentOhmic_NoHalf(self, Vov, Vds) ==
    Mul(self.kn, Mul(Vov, Vds) - Mul(Vds, Vds))

\* self.kn*( Vov*(Vd - Vs) - 0.5*((Vd - Vs)**2) )
DrainCurrentOhmic(self, Vov, Vds) ==
    Mul(self.kn, Mul(Vov, Vds) - Mul(Dec(5, 10), Mul(Vds, Vds)))

calc_drain_current_NoCutoff(self, Vg, Vd, Vs) ==
    LET Vov == Vg - Vs - self.Vt
    IN  IF Vov < (Vd - Vs)
        THEN DrainCurrentSquareLaw(self, Vov)
        ELSE DrainCurrentOhmic(self, Vov, Vd - Vs)

calc_drain_current(self, Vg, Vd, Vs) ==
    LET Vov == Vg - Vs - self.Vt
    IN  IF Vov < 0
        THEN 0
        ELSE IF Vov < (Vd - Vs)
             THEN DrainCurrentSquareLaw(self, Vov)
             ELSE DrainCurrentOhmic(self, Vov, Vd - Vs)

\* 0.5*self.kn*( (Vg - Vs - self.Vt)**2 ), on exact rationals
calc_drain_current_sat(self, Vg, Vs) ==
    LET Vov == RSub(RSub(Vg, Vs), self.Vt)
    IN  RMul(RMul(R(1, 2), self.kn), RMul(Vov, Vov))

(***************************************************************************)
(* Schottky diode                                                          *)
(***************************************************************************)
Diode(I0, alpha) == [I0 |-> I0, alpha |-> alpha]

\* The outcome of a call: not made yet, a returned value, or an uncaught exception
Pending == [kind |-> "pending"]

Returned(v) == [kind |-> "return", value |-> v]

Raised(e) == [kind |-> "raise", exc |-> e]

\* math.log( (I/self.I0) + 1 ): the argument (I/I0) + 1 is the exact ratio (I + I0)/I0;
\* math.log raises ValueError unless its argument is positive
LogArgPositive(self, I) ==
    \/ self.I0 > 0 /\ I + self.I0 > 0
    \/ self.I0 < 0 /\ I + self.I0 < 0

calc_voltage_LogOfAbs(self, I) ==
    IF self.I0 = 0
    THEN Raised("ZeroDivisionError")
    ELSE Returned(Div(LnRatio(Abs(I) + Abs(self.I0), Abs(self.I0)), self.alpha))

\* Forward Voltage Drop
calc_voltage(self, I) ==
    IF self.I0 = 0
    THEN Raised("ZeroDivisionError")
    ELSE IF ~LogArgPositive(self, I)
         THEN Raised("ValueError")
         ELSE Returned(Div(LnRatio(Abs(I + self.I0), Abs(self.I0)), self.alpha))

(***************************************************************************)
(* Globals and circuit set-up                                              *)
(***************************************************************************)
\* A quotient kept exact: n/d with d > 0; a numpy division by zero gives inf or nan
Ratio(n, d) == [kind |-> "num", n |-> n, d |-> d]

Inf == [kind |-> "inf"]

NaN == [kind |-> "nan"]

\* x >= t for a finite t with t.n >= 0; every comparison with nan is false
Geq(x, t) ==
    CASE x.kind = "inf" -> TRUE
      [] x.kind = "nan" -> FALSE
      [] OTHER -> x.n >= -((-(t.n * x.d)) \div t.d)

ERROR_THRESHOLD == Ratio(1, 100)

MAX_ITERATIONS == 1000

mux_diode == Diode(Dec(4197, 1000000), Dec(1328, 100))

Rp == 1

\* Number of points of the battery voltage sweep (100 in the script)
NumPoints == 3

\* np.linspace( start, stop, num ): num evenly spaced samples, the last one stop itself
linspace(start, stop, num) ==
    [k \in 1..num |->
        IF num > 1 /\ k = num
        THEN stop
        ELSE start + (k - 1) * ((stop - start) \div Max(num - 1, 1))]

input_voltages == linspace(Dec(37, 10), Mul(Dec(37, 10), Dec(4, 1)), NumPoints)

\* np.zeros( len(input_voltages) )
zeros(n) == [k \in 1..n |-> 0]

\* Drive transistors the sweep is run with: the script's NMOS( 4.2, 1.0 ), two weak
\* devices whose saturation current lies far below the initial guess, and one that
\* is cut off at the 3.3 V gate drive
DriveDevices ==
    { NMOS(Dec(42, 10), Dec(10, 10)),
      NMOS(Dec(165, 1000000), Dec(10, 10)),
      NMOS(Dec(1, 100000), Dec(10, 10)),
      NMOS(Dec(42, 10), Dec(35, 10)) }

(***************************************************************************)
(* State                                                                   *)
(***************************************************************************)
VARIABLES
    call, ret,          \* a device-model method applied on its own: arguments, outcome
    drive_nmos,         \* the drive transistor
    pc,                 \* "for": at the head of the sweep loop, "while": at the solver's
                        \* loop test, "done": sweep finished, "raised": uncaught exception
    exc,                \* the uncaught exception, "" if none
    i,                  \* index of the current sweep point, -1 before the first
    error, current_actual, current_guess, num_iter,
    diode_VF, Vd,       \* assigned in the loop body only
    bound,              \* whether diode_VF and Vd have been assigned yet
    guess_np,           \* whether current_guess holds a numpy float64 (else a Python float)
    drive_Vds, drive_currents, diode_VFs,
    stdout,             \* the lines printed
    guess_in,           \* history: current_guess on entry to the latest loop body
    recorded            \* history: the indices whose results were recorded, in order

vars_call == <<call, ret>>

vars_sweep ==
    <<drive_nmos, pc, exc, i, error, current_actual, current_guess, num_iter, diode_VF, Vd,
      bound, guess_np, drive_Vds, drive_currents, diode_VFs, stdout, guess_in, recorded>>

vars == <<vars_call, vars_sweep>>

\* The variables of the part of the script a specification does not run
Idle_call == call = [fn |-> "none"] /\ ret = Pending

Idle_sweep ==
    /\ drive_nmos = NMOS(0, 0) /\ pc = "idle" /\ exc = "" /\ i = -1
    /\ error = Ratio(0, 1) /\ current_actual = 0 /\ current_guess = 0 /\ num_iter = 0
    /\ diode_VF = 0 /\ Vd = 0 /\ bound = FALSE /\ guess_np = FALSE
    /\ drive_Vds = <<>> /\ drive_currents = <<>> /\ diode_VFs = <<>>
    /\ stdout = <<>> /\ guess_in = 0 /\ recorded = <<>>

(***************************************************************************)
(* NMOS.calc_drain_current applied to bounded inputs                       *)
(***************************************************************************)
\* Device parameters: the drive and the continuity transistor, and a weak one
NMOSDevices ==
    { NMOS(Dec(42, 10), Dec(10, 10)), NMOS(Dec(159, 1000), Dec(15, 10)),
      NMOS(Dec(165, 1000000), Dec(10, 10)), NMOS(Dec(42, 10), Dec(35, 10)) }

GateVoltages == { Dec(0, 1), Dec(15, 10), Dec(33, 10) }

\* Drain voltages -0.5 V .. MaxDrainDeciVolts/10 V in steps of 0.1 V
MaxDrainDeciVolts == 30

DrainVoltages == { Dec(k, 10) : k \in -5..MaxDrainDeciVolts }

SourceVoltages == { Dec(0, 1), Dec(5, 10) }

Init_NMOS ==
    /\ call \in [fn : {"calc_drain_current"}, self : NMOSDevices,
                 Vg : GateVoltages, Vd : DrainVoltages, Vs : SourceVoltages]
    /\ ret = Pending
    /\ Idle_sweep

Call_calc_drain_current ==
    /\ call.fn = "calc_drain_current"
    /\ ret = Pending
    /\ ret' = Returned(calc_drain_current(call.self, call.Vg, call.Vd, call.Vs))
    /\ UNCHANGED <<call, vars_sweep>>

Next_NMOS == Call_calc_drain_current

SpecNMOS == Init_NMOS /\ [][Next_NMOS]_vars

(***************************************************************************)
(* Diode.calc_voltage applied to bounded inputs                            *)
(***************************************************************************)
Diodes == { mux_diode, Diode(Dec(1, 100), Dec(20, 1)) }

\* Currents -MaxCurrentSteps/4 .. MaxCurrentSteps/4 times I0 in steps of I0/4, the
\* two currents next to -I0, and the solver's initial guess
MaxCurrentSteps == 24

CurrentSamples(self) ==
    { (self.I0 * k) \div 4 : k \in -MaxCurrentSteps..MaxCurrentSteps }
        \cup { -self.I0 - 1, -self.I0 + 1, Dec(1, 10) }

Init_Diode ==
    /\ \E self \in Diodes : \E I \in CurrentSamples(self) :
            call = [fn |-> "calc_voltage", self |-> self, I |-> I]
    /\ ret = Pending
    /\ Idle_sweep

Call_calc_voltage ==
    /\ call.fn = "calc_voltage"
    /\ ret = Pending
    /\ ret' = calc_voltage(call.self, call.I)
    /\ UNCHANGED <<call, vars_sweep>>

Next_Diode == Call_calc_voltage

SpecDiode == Init_Diode /\ [][Next_Diode]_vars

(***************************************************************************)
(* The continuity signal, one battery voltage at a time                    *)
(***************************************************************************)
\* math.sqrt( x ): ValueError for x < 0; the root of a rational is kept in closed form
math_sqrt(x) == IF x.n < 0 THEN Raised("ValueError") ELSE Returned([sqrt_of |-> x])

SelectsQuadratic_Geq(Vov, Vcont) == RGeq(Vov, Vcont)

\* if ( Vov > Vcont )
SelectsQuadratic(Vov, Vcont) == RGt(Vov, Vcont)

QuadraticB_NoOffset(cont_nmos, Rcont, Vov) == Vov

\* b = Vov + (1/(cont_nmos.kn*Rcont))
QuadraticB(cont_nmos, Rcont, Vov) == RAdd(Vov, RDiv(R(1, 1), RMul(cont_nmos.kn, Rcont)))

\* c = 2*3.3/(cont_nmos.kn*Rcont)
QuadraticC(cont_nmos, Rcont) == RDiv(RMul(R(2, 1), R(33, 10)), RMul(cont_nmos.kn, Rcont))

\* An exception raised with the loop's local variables as they then stand
RaisedAt(e, locals) == [kind |-> "raise", exc |-> e, value |-> locals]

\* The body of the continuity loop for one battery voltage: the local variables it
\* assigns and the value stored in cont_voltages[i] (b - sqrt(rad) kept in closed form)
ContinuityPoint(cont_nmos, Rcont, v) ==
    LET Vov     == RSub(v, cont_nmos.Vt)
        current == IF RLt(Vov, R(0, 1))
                   THEN R(0, 1)
                   ELSE calc_drain_current_sat(cont_nmos, v, R(0, 1))
        Vcont   == RSub(R(33, 10), RMul(current, Rcont))
    IN  IF SelectsQuadratic(Vov, Vcont)
        THEN IF RMul(cont_nmos.kn, Rcont).n = 0
             THEN RaisedAt("ZeroDivisionError",
                           [Vov |-> Vov, current |-> current, Vcont |-> Vcont,
                            branch |-> "quadratic"])
             ELSE LET b    == QuadraticB(cont_nmos, Rcont, Vov)
                      c    == QuadraticC(cont_nmos, Rcont)
                      rad  == RSub(RMul(b, b), c)
                      root == math_sqrt(rad)
                  IN  IF root.kind = "raise"
                      THEN RaisedAt(root.exc,
                                    [Vov |-> Vov, current |-> current, Vcont |-> Vcont,
                                     branch |-> "quadratic", b |-> b, c |-> c, rad |-> rad])
                      ELSE Returned([Vov |-> Vov, current |-> current, Vcont |-> Vcont,
                                     branch |-> "quadratic", b |-> b, c |-> c, rad |-> rad,
                                     cont_voltage |-> [minuend |-> b, sqrt_of |-> rad]])
        ELSE Returned([Vov |-> Vov, current |-> current, Vcont |-> Vcont,
                       branch |-> "linear", cont_voltage |-> Vcont])

\* Continuity circuits: the script's NMOS( 0.159, 1.5 ) with the 10 kOhm pull-up, the
\* same transistor with a 1 Ohm pull-up, and a weak transistor (kn = 1/22000) for which
\* Vov = Vcont holds at 3.7 V
ContCircuits ==
    { [cont_nmos |-> NMOS(R(159, 1000), R(15, 10)), Rcont |-> R(10000, 1)],
      [cont_nmos |-> NMOS(R(159, 1000), R(15, 10)), Rcont |-> R(1, 1)],
      [cont_nmos |-> NMOS(R(1, 22000), R(15, 10)), Rcont |-> R(10000, 1)] }

\* Battery voltages 0 V .. MaxDeciVolts/10 V in steps of 0.1 V
MaxDeciVolts == 148

Init_Cont ==
    /\ \E cc \in ContCircuits : \E k \in 0..MaxDeciVolts :
            call = [fn |-> "continuity", cont_nmos |-> cc.cont_nmos, Rcont |-> cc.Rcont,
                    voltage |-> R(k, 10)]
    /\ ret = Pending
    /\ Idle_sweep

ContinuityStep ==
    /\ call.fn = "continuity"
    /\ ret = Pending
    /\ ret' = ContinuityPoint(call.cont_nmos, call.Rcont, call.voltage)
    /\ UNCHANGED <<call, vars_sweep>>

Next_Cont == ContinuityStep

SpecCont == Init_Cont /\ [][Next_Cont]_vars

(***************************************************************************)
(* The battery voltage sweep and its drive-current solver                  *)
(***************************************************************************)
voltage == input_voltages[i + 1]

InitialError_Zero == Ratio(0, 1)

\* error = 100
InitialError == Ratio(100, 1)

learn_rate == Dec(1, 100)

LoopCondition_Leq == Geq(error, ERROR_THRESHOLD) /\ num_iter <= MAX_ITERATIONS

\* while ( error >= ERROR_THRESHOLD and num_iter < MAX_ITERATIONS )
LoopCondition == Geq(error, ERROR_THRESHOLD) /\ num_iter < MAX_ITERATIONS

\* ( abs( current_actual - current_guess ) )/current_actual.  Two Python numbers
\* divided by zero raise ZeroDivisionError; with a numpy float64 operand the
\* quotient is inf, or nan for 0/0.
ErrorQuotient(actual, guess, np) ==
    IF actual > 0 THEN Returned(Ratio(Abs(actual - guess), actual))
    ELSE IF actual < 0 THEN Returned(Ratio(-Abs(actual - guess), -actual))
    ELSE IF ~np THEN Raised("ZeroDivisionError")
    ELSE IF actual - guess = 0 THEN Returned(NaN) ELSE Returned(Inf)

UpdateGuess_FromActual(guess, actual) == actual + Mul(learn_rate, actual - guess)

\* current_guess + learn_rate*( current_actual - current_guess )
UpdateGuess(guess, actual) == guess + Mul(learn_rate, actual - guess)

\* Whether calc_drain_current returns a numpy float64: only its last branch computes
\* with Vd, which derives from the numpy array input_voltages
ReturnsNumpy(self, Vg, vd, Vs) ==
    LET Vov == Vg - Vs - self.Vt IN Vov >= 0 /\ ~(Vov < (vd - Vs))

Init_Sweep ==
    /\ Idle_call
    /\ drive_nmos \in DriveDevices
    /\ pc = "for" /\ exc = "" /\ i = -1
    /\ error = Ratio(0, 1) /\ current_actual = 0 /\ current_guess = 0 /\ num_iter = 0
    /\ diode_VF = 0 /\ Vd = 0 /\ bound = FALSE /\ guess_np = FALSE
    /\ drive_Vds = zeros(Len(input_voltages))
    /\ drive_currents = zeros(Len(input_voltages))
    /\ diode_VFs = zeros(Len(input_voltages))
    /\ stdout = <<>> /\ guess_in = 0 /\ recorded = <<>>

\* for i, voltage in enumerate( input_voltages ): the next point, solver set-up
ForNext ==
    /\ pc = "for"
    /\ i + 1 < Len(input_voltages)
    /\ i' = i + 1
    /\ error' = InitialError
    /\ current_actual' = Dec(1, 10)
    /\ current_guess' = Dec(1, 10)
    /\ guess_np' = FALSE
    /\ num_iter' = 0
    /\ stdout' = Append(stdout, [msg |-> "Solving for battery voltage", V |-> input_voltages[i + 2]])
    /\ pc' = "while"
    /\ UNCHANGED <<drive_nmos, exc, diode_VF, Vd, bound, drive_Vds, drive_currents,
                   diode_VFs, guess_in, recorded, vars_call>>

\* the sweep loop is exhausted
ForExit ==
    /\ pc = "for"
    /\ i + 1 = Len(input_voltages)
    /\ pc' = "done"
    /\ UNCHANGED <<drive_nmos, exc, i, error, current_actual, current_guess, num_iter,
                   diode_VF, Vd, bound, guess_np, drive_Vds, drive_currents, diode_VFs,
                   stdout, guess_in, recorded, vars_call>>

\* One pass through the body of the solver loop
WhileBody ==
    /\ pc = "while"
    /\ LoopCondition
    /\ LET VF == calc_voltage(mux_diode, current_guess)
       IN  IF VF.kind = "raise"
           THEN /\ pc' = "raised" /\ exc' = VF.exc
                /\ UNCHANGED <<diode_VF, Vd, bound, current_actual, error, current_guess,
                               guess_np, num_iter, guess_in>>
           ELSE LET vd     == voltage - VF.value - (current_guess * Rp)
                    actual == calc_drain_current(drive_nmos, Dec(33, 10), vd, 0)
                    np     == guess_np \/ ReturnsNumpy(drive_nmos, Dec(33, 10), vd, 0)
                    quot   == ErrorQuotient(actual, current_guess, np)
                IN  /\ diode_VF' = VF.value
                    /\ Vd' = vd
                    /\ bound' = TRUE
                    /\ current_actual' = actual
                    /\ guess_in' = current_guess
                    /\ IF quot.kind = "raise"
                       THEN /\ pc' = "raised" /\ exc' = quot.exc
                            /\ UNCHANGED <<error, current_guess, guess_np, num_iter>>
                       ELSE /\ error' = quot.value
                            /\ current_guess' = UpdateGuess(current_guess, actual)
                            /\ guess_np' = np
                            /\ num_iter' = num_iter + 1
                            /\ pc' = "while"
                            /\ exc' = exc
    /\ UNCHANGED <<drive_nmos, i, drive_Vds, drive_currents, diode_VFs, stdout, recorded,
                   vars_call>>

\* The line printed once the solver loop has ended
ReportLine ==
    IF num_iter = MAX_ITERATIONS
    THEN [msg |-> "Solver failed to converge"]
    ELSE [msg |-> "Solution converged in iterations", n |-> num_iter]

ReportAndRecord_BreakOnFailure ==
    /\ pc = "while"
    /\ ~LoopCondition
    /\ stdout' = Append(stdout, ReportLine)
    /\ bound
    /\ drive_Vds' = [drive_Vds EXCEPT ![i + 1] = Vd]
    /\ drive_currents' = [drive_currents EXCEPT ![i + 1] = current_guess]
    /\ diode_VFs' = [diode_VFs EXCEPT ![i + 1] = diode_VF]
    /\ recorded' = Append(recorded, i)
    /\ pc' = IF num_iter = MAX_ITERATIONS THEN "done" ELSE "for"
    /\ UNCHANGED <<drive_nmos, exc, i, error, current_actual, current_guess, num_iter,
                   diode_VF, Vd, bound, guess_np, guess_in, vars_call>>

\* The solver loop has ended: report, then record the results of the point
ReportAndRecord ==
    /\ pc = "while"
    /\ ~LoopCondition
    /\ stdout' = Append(stdout, ReportLine)
    /\ IF ~bound
       THEN /\ pc' = "raised" /\ exc' = "NameError"
            /\ UNCHANGED <<drive_Vds, drive_currents, diode_VFs, recorded>>
       ELSE /\ drive_Vds' = [drive_Vds EXCEPT ![i + 1] = Vd]
            /\ drive_currents' = [drive_currents EXCEPT ![i + 1] = current_guess]
            /\ diode_VFs' = [diode_VFs EXCEPT ![i + 1] = diode_VF]
            /\ recorded' = Append(recorded, i)
            /\ pc' = "for"
            /\ exc' = exc
    /\ UNCHANGED <<drive_nmos, i, error, current_actual, current_guess, num_iter, diode_VF,
                   Vd, bound, guess_np, guess_in, vars_call>>

Next == ForNext \/ WhileBody \/ ReportAndRecord \/ ForExit

Spec == Init_Sweep /\ [][Next]_vars

(***************************************************************************)
(* Properties                                                              *)
(***************************************************************************)
CalledDrainCurrent == call.fn = "calc_drain_current" /\ ret.kind = "return"

CallVov == call.Vg - call.Vs - call.self.Vt

CallVds == call.Vd - call.Vs

\* C1: NMOS.calc_drain_current returns exactly 0 whenever Vov = Vg - Vs - Vt < 0,
\* for every kn, Vt and Vd, also when Vd < Vs
C1_CutoffCurrentIsZero == (CalledDrainCurrent /\ CallVov < 0) => ret.value = 0

C1_Witness == CalledDrainCurrent /\ CallVov < 0 /\ call.Vd < call.Vs /\ ret.value = 0

\* C2: at the boundary Vds = Vov between the two conducting branches, the value
\* calc_drain_current returns (from the branch taken for Vov >= Vds) equals the value
\* 0.5*kn*Vov^2 of the branch taken for Vov < Vds
C2_ContinuousAtBoundary ==
    (CalledDrainCurrent /\ CallVov >= 0 /\ CallVds = CallVov)
        => /\ ret.value = DrainCurrentSquareLaw(call.self, CallVov)
           /\ DrainCurrentOhmic(call.self, CallVov, CallVds)
                = DrainCurrentSquareLaw(call.self, CallVov)

C2_Witness == CalledDrainCurrent /\ CallVov > 0 /\ CallVds = CallVov /\ ret.value > 0

\* The relative error is a number below the threshold
Converged == error.kind = "num" /\ ~Geq(error, ERROR_THRESHOLD)

\* C3: the solver loop of every sweep point terminates: the iteration count starts at
\* 0, grows by exactly 1 per iteration and never exceeds MAX_ITERATIONS, and the loop
\* is left as soon as the error is below the threshold or the count has reached
\* MAX_ITERATIONS
C3_SolverLoopTerminates ==
    /\ [][(num_iter \in 0..MAX_ITERATIONS) /\ (num_iter' \in 0..MAX_ITERATIONS)]_vars
    /\ [][(pc = "for" /\ pc' = "while") => num_iter' = 0]_vars
    /\ [][(pc = "while" /\ pc' = "while") => num_iter' = num_iter + 1]_vars
    /\ [][(pc = "while" /\ (~Geq(error, ERROR_THRESHOLD) \/ num_iter = MAX_ITERATIONS))
            => pc' # "while"]_vars

C3_Witness == pc = "for" /\ i >= 0 /\ num_iter = MAX_ITERATIONS /\ ~Converged

\* The line printed last
LastLine == stdout[Len(stdout)]

Rank ==
    (i + 1) * (MAX_ITERATIONS + 3)
        + (CASE pc = "while" -> 1 + num_iter
             [] pc = "for" -> IF i = -1 THEN 0 ELSE MAX_ITERATIONS + 2
             [] OTHER -> MAX_ITERATIONS + 3)

\* Every point up to the current one has been recorded exactly once, in index order,
\* the current one only once its solve has ended
RecordedInOrder ==
    /\ \A k \in 1..Len(recorded) : recorded[k] = k - 1
    /\ Len(recorded) = (IF pc \in {"for", "done"} THEN i + 1 ELSE Max(i, 0))
    /\ pc = "done" => Len(recorded) = Len(input_voltages)

\* C5: a point whose solve reaches MAX_ITERATIONS does not stop the sweep: its last
\* guess is recorded and the sweep goes on to the next voltage with the solver
\* re-initialised; every step of the sweep makes progress, and unless an exception is
\* raised it ends with every point recorded exactly once, in index order
C5_SweepSurvivesNonConvergence ==
    /\ [][(pc = "while" /\ num_iter = MAX_ITERATIONS /\ pc' # "while")
            => /\ pc' = "for"
               /\ drive_currents'[i + 1] = current_guess
               /\ recorded' = Append(recorded, i)]_vars
    /\ [][(pc = "for" /\ i >= 0 /\ num_iter = MAX_ITERATIONS)
            => \/ pc' = "done" /\ i + 1 = Len(input_voltages)
               \/ /\ pc' = "while"
                  /\ i' = i + 1
                  /\ current_guess' = Dec(1, 10)
                  /\ num_iter' = 0
                  /\ error' = Ratio(100, 1)]_vars
    /\ [][RecordedInOrder /\ RecordedInOrder']_vars
    /\ [][Rank' > Rank]_vars

C5_Witness ==
    /\ pc = "done"
    /\ Len(recorded) = Len(input_voltages)
    /\ num_iter = MAX_ITERATIONS /\ ~Converged
    /\ \E k \in 1..Len(stdout) : stdout[k].msg = "Solver failed to converge"

\* Maximum current of the script's drive transistor: 0.5*kn*Vov^2 at Vg = 3.3, Vs = 0
DriveCurrentMax == DrainCurrentSquareLaw(NMOS(Dec(42, 10), Dec(10, 10)), Dec(33, 10) - 0 - Dec(10, 10))

\* C9: with the script's drive transistor NMOS( 4.2, 1.0 ), neither the current the
\* transistor model returns nor the guess, from its initial 0.1 through every damped
\* update, ever exceeds 0.5*kn*Vov^2 (11.109 A)
C9_GuessBelowMaxCurrent ==
    (drive_nmos = NMOS(Dec(42, 10), Dec(10, 10)) /\ i >= 0)
        => current_guess <= DriveCurrentMax /\ current_actual <= DriveCurrentMax

C9_Witness ==
    /\ drive_nmos = NMOS(Dec(42, 10), Dec(10, 10))
    /\ num_iter > 400
    /\ current_actual = DriveCurrentMax
    /\ current_guess > Dec(1099, 100)

\* C10: the solver body runs at least once for every point, and what is recorded for
\* a point is: the diode forward voltage and the drain voltage computed in the final
\* iteration from the point's battery voltage and the guess before the final update,
\* and as drive current the guess after the final update
C10_RecordedFromFinalIteration ==
    /\ (pc = "while" /\ ~LoopCondition) => num_iter >= 1
    /\ (pc \in {"for", "done"} /\ i >= 0)
        => /\ num_iter >= 1
           /\ diode_VFs[i + 1] = calc_voltage(mux_diode, guess_in).value
           /\ drive_Vds[i + 1] = input_voltages[i + 1] - diode_VFs[i + 1] - guess_in * Rp
           /\ current_actual = calc_drain_current(drive_nmos, Dec(33, 10), drive_Vds[i + 1], 0)
           /\ drive_currents[i + 1] = UpdateGuess(guess_in, current_actual)

\* A recorded point whose drain voltage is not the one its recorded current gives
C10_Witness ==
    /\ pc = "for" /\ i >= 1
    /\ drive_currents[i + 1] # guess_in
    /\ drive_Vds[i + 1] # input_voltages[i + 1]
            - calc_voltage(mux_diode, drive_currents[i + 1]).value - drive_currents[i + 1] * Rp
    /\ drive_Vds[i + 1] # drive_Vds[i]

CalledContinuity == call.fn = "continuity" /\ ret.kind # "pending"

\* C6: the quadratic branch of the continuity computation is taken only when Vov is
\* strictly greater than Vcont = 3.3 - current*Rcont; for Vov = Vcont the linear
\* branch is taken and the output is Vcont
C6_StrictBranchSelection ==
    CalledContinuity
        => /\ (ret.value.branch = "quadratic") <=> RGt(ret.value.Vov, ret.value.Vcont)
           /\ (ret.value.Vov = ret.value.Vcont)
                => /\ ret.kind = "return"
                   /\ ret.value.branch = "linear"
                   /\ ret.value.cont_voltage = ret.value.Vcont

C6_Witness ==
    /\ CalledContinuity
    /\ ret.value.Vov = ret.value.Vcont
    /\ ret.value.branch = "linear"
    /\ ret.value.Vcont = RSub(R(33, 10), RMul(ret.value.current, call.Rcont))

\* C7: whenever the quadratic branch is taken, b^2 >= c for b = Vov + 1/(kn*Rcont)
\* and c = 2*3.3/(kn*Rcont), so math.sqrt never raises
C7_RadicandNonNegative ==
    (CalledContinuity /\ ret.value.branch = "quadratic")
        => /\ ret.kind = "return"
           /\ RGeq(RMul(ret.value.b, ret.value.b), ret.value.c)
           /\ ret.value.rad.n >= 0

C7_Witness ==
    /\ CalledContinuity
    /\ ret.value.branch = "quadratic"
    /\ call.cont_nmos.kn = R(159, 1000) /\ call.Rcont = R(10000, 1)
    /\ call.voltage = R(37, 10)
    /\ ret.value.rad.n > 0

CalledVoltage == call.fn = "calc_voltage" /\ ret.kind # "pending"

\* C8: for I0 > 0, Diode.calc_voltage raises ValueError exactly when I <= -I0 and
\* returns a value for every I > -I0
C8_DomainErrorIffAtMostMinusI0 ==
    (CalledVoltage /\ call.self.I0 > 0)
        => /\ (ret = Raised("ValueError")) <=> (call.I <= -call.self.I0)
           /\ (ret.kind = "return") <=> (call.I > -call.self.I0)

C8_Witness ==
    /\ CalledVoltage
    /\ call.self = mux_diode
    /\ call.I = -call.self.I0
    /\ ret = Raised("ValueError")

=============================================================================
